---- MODULE Spec2Model ----
(***************************************************************************)
(* Model of the GODiscord bot (src/main.go): the startup sequence of main, *)
(* the Ready handler that registers the slash commands, the text-command   *)
(* dispatcher (messageHandler) with its three handlers, and the            *)
(* interaction dispatcher with its two handlers.                           *)
(*                                                                         *)
(* Text is a sequence of pieces: content typed by a user is a sequence of  *)
(* one-character strings, a literal of the program is one piece, and a     *)
(* formatted value is one piece.  The text denoted is the concatenation.   *)
(*                                                                         *)
(* Spec runs main, the Ready handlings one after another and the message   *)
(* and interaction events.  SpecOverlap starts with main blocked in its    *)
(* wait and runs the Ready handlings alone, two of them at the same time.  *)
(***************************************************************************)
EXTENDS Integers, Sequences, FiniteSets, TLC

(* ---------------------------- bounds ----------------------------------- *)

\* number of message / interaction events delivered in one run
MaxEvents == 2
\* number of Ready events delivered in one run (the first, then reconnects)
MaxReady == 2
\* longest generated message content over Alphabet
MaxLen == 2

(* ----------------------- program constants ----------------------------- *)

\* time.Millisecond, in nanoseconds
Millisecond == 1000000

BotID == "bot"
Users == {BotID, "u1"}
Channel == "c1"
Guild == "g1"
MessageID == "m1"

(* ------------------------------ text ----------------------------------- *)

Prefix == <<"!">>
EchoPrefix == <<"!", "e", "c", "h", "o", " ">>
PingName == <<"p", "i", "n", "g">>
EchoName == <<"e", "c", "h", "o">>
HelpName == <<"h", "e", "l", "p">>

InvalidNotice == <<"Invalid command. Try !help for a list of commands.">>
EchoPrompt == <<"Please provide something to echo!">>
Pong == <<"Pong!">>

\* unicode.IsSpace, restricted to the white space the inputs use
IsSpace(c) == c \in {" ", "\t", "\n"}

\* strings.HasPrefix
HasPrefix(s, p) == Len(s) >= Len(p) /\ SubSeq(s, 1, Len(p)) = p

\* strings.TrimPrefix
TrimPrefix(s, p) == IF HasPrefix(s, p) THEN SubSeq(s, Len(p) + 1, Len(s)) ELSE s

RECURSIVE FieldsFrom(_, _, _)
\* strings.Fields: cur is the field being read, acc the fields read so far
FieldsFrom(s, cur, acc) ==
    IF s = <<>>
    THEN IF cur = <<>> THEN acc ELSE Append(acc, cur)
    ELSE IF IsSpace(Head(s))
         THEN FieldsFrom(Tail(s), <<>>, IF cur = <<>> THEN acc ELSE Append(acc, cur))
         ELSE FieldsFrom(Tail(s), Append(cur, Head(s)), acc)

Fields(s) == FieldsFrom(s, <<>>, <<>>)

(* ---------------------------- durations -------------------------------- *)

\* time.Duration.Round(m) for m > 0: to the nearest multiple of m, halves away
\* from zero (the saturation at the int64 limits is out of the modelled range)
Round(d, m) ==
    IF d < 0
    THEN LET r == (-d) % m IN IF r + r < m THEN d + r ELSE d - m + r
    ELSE LET r == d % m IN IF r + r < m THEN d - r ELSE d + m - r

RECURSIVE Digits(_, _)
\* the decimal digits of n, left-padded with zeros to width w
Digits(n, w) == IF w = 0 THEN "" ELSE Digits(n \div 10, w - 1) \o ToString(n % 10)

RECURSIVE TrimZeros(_, _)
\* the w-digit fraction n without its trailing zeros
TrimZeros(n, w) ==
    IF w = 0 THEN ""
    ELSE IF n % 10 = 0 THEN TrimZeros(n \div 10, w - 1) ELSE Digits(n, w)

\* v/10^w printed as time.Duration.String prints it: integer part, then the
\* fraction without trailing zeros when there is one
Frac(v, unit, w) ==
    ToString(v \div unit) \o
    (IF v % unit = 0 THEN "" ELSE "." \o TrimZeros(v % unit, w))

\* time.Duration.String for |d| below one minute
DurationString(d) ==
    LET u == IF d < 0 THEN -d ELSE d
        sign == IF d < 0 THEN "-" ELSE ""
    IN  IF u = 0 THEN "0s"
        ELSE IF u < 1000 THEN sign \o ToString(u) \o "ns"
        ELSE IF u < 1000000 THEN sign \o Frac(u, 1000, 3) \o "us"  \* micro sign
        ELSE IF u < 1000000000 THEN sign \o Frac(u, 1000000, 6) \o "ms"
        ELSE sign \o Frac(u, 1000000000, 9) \o "s"

(* ------------------------- command registry ---------------------------- *)

\* the command table built in main; Handler names the function it holds
commands ==
    << [Name |-> PingName,
        Description |-> "Replies with 'Pong!' and shows response time and client WebSocket ping.",
        Handler |-> "pingCommand"],
       [Name |-> EchoName,
        Description |-> "Repeats back the message sent after the command.",
        Handler |-> "echoCommand"],
       [Name |-> HelpName,
        Description |-> "Shows the list of available commands.",
        Handler |-> "helpCommand"] >>

(* --------------------------- outbound calls ---------------------------- *)

\* one call on the session: op, the channel or interaction it addresses, the
\* message it refers to (edit only), the text, the durations formatted into
\* the text, and whether the gateway accepted it
Call(op, target, ref, content, args, ok) ==
    [op |-> op, target |-> target, ref |-> ref, content |-> content,
     args |-> args, ok |-> ok]

\* what handling one event did: the handlers entered, the calls made in
\* order, the audit lines printed, and the panic that ended it ("" for none)
Outcome(invoked, calls, audit, panic) ==
    [invoked |-> invoked, calls |-> calls, audit |-> audit, panic |-> panic]

NoOutcome == Outcome(<<>>, <<>>, <<>>, "")

(* ------------------------ text-command handlers ------------------------ *)

\* logCommandExecution: both lookups discard their error; a failed lookup
\* returns a nil pointer, and reading .Name through it panics
logCommandExecution(m, env) ==
    IF ~env.guildOk \/ ~env.channelOk
    THEN Outcome(<<>>, <<>>, <<>>, "nil pointer dereference")
    ELSE Outcome(<<>>, <<>>,
                 << [user |-> m.Author, server |-> m.GuildID,
                     channel |-> m.ChannelID, content |-> m.Content] >>, "")

\* pingCommand without the return after a failed send
pingCommandEditsAnyway(m, env) ==
    LET log == logCommandExecution(m, env)
        send == Call("ChannelMessageSend", m.ChannelID, "", Pong, <<>>, env.sendOk)
        wsLatency == Round(env.wsLatency, Millisecond)
        content == << "Pong! Response Time: ", DurationString(env.elapsed),
                      " | WebSocket Ping: ", DurationString(wsLatency) >>
        edit == Call("ChannelMessageEdit", m.ChannelID, MessageID, content,
                     <<env.elapsed, wsLatency>>, env.editOk)
    IN  IF log.panic # "" THEN log
        ELSE Outcome(<<>>, <<send, edit>>, log.audit, "")

pingCommand(m, env) ==
    LET log == logCommandExecution(m, env)
        send == Call("ChannelMessageSend", m.ChannelID, "", Pong, <<>>, env.sendOk)
        msg == [ID |-> MessageID, ChannelID |-> m.ChannelID]
        elapsed == env.elapsed
        wsLatency == Round(env.wsLatency, Millisecond)
        content == << "Pong! Response Time: ", DurationString(elapsed),
                      " | WebSocket Ping: ", DurationString(wsLatency) >>
        edit == Call("ChannelMessageEdit", msg.ChannelID, msg.ID, content,
                     <<elapsed, wsLatency>>, env.editOk)
    IN  IF log.panic # "" THEN log
        ELSE IF ~env.sendOk THEN Outcome(<<>>, <<send>>, log.audit, "")
        ELSE Outcome(<<>>, <<send, edit>>, log.audit, "")

echoCommand(m, env) ==
    LET log == logCommandExecution(m, env)
        content == TrimPrefix(m.Content, EchoPrefix)
    IN  IF log.panic # "" THEN log
        ELSE IF content # <<>>
        THEN Outcome(<<>>, <<Call("ChannelMessageSend", m.ChannelID, "", content,
                                  <<>>, env.sendOk)>>, log.audit, "")
        ELSE Outcome(<<>>, <<Call("ChannelMessageSend", m.ChannelID, "", EchoPrompt,
                                  <<>>, env.sendOk)>>, log.audit, "")

RECURSIVE HelpLines(_)
\* the loop of helpCommand over the command table
HelpLines(cmds) ==
    IF cmds = <<>> THEN <<>>
    ELSE (<<"- !">> \o Head(cmds).Name \o <<": ", Head(cmds).Description, "\n">>)
         \o HelpLines(Tail(cmds))

helpCommand(m, env) ==
    LET log == logCommandExecution(m, env)
        helpMessage == <<"Available commands:\n">> \o HelpLines(commands)
    IN  IF log.panic # "" THEN log
        ELSE Outcome(<<>>, <<Call("ChannelMessageSend", m.ChannelID, "", helpMessage,
                                  <<>>, env.sendOk)>>, log.audit, "")

\* cmd.Handler(s, m)
Invoke(handler, m, env) ==
    LET r == CASE handler = "pingCommand" -> pingCommand(m, env)
               [] handler = "echoCommand" -> echoCommand(m, env)
               [] handler = "helpCommand" -> helpCommand(m, env)
    IN  [r EXCEPT !.invoked = <<handler>>]

\* strings.ToLower on the letters the inputs use
ToLower(s) ==
    [k \in 1..Len(s) |->
        CASE s[k] = "P" -> "p" [] s[k] = "I" -> "i" [] s[k] = "N" -> "n"
          [] s[k] = "G" -> "g" [] OTHER -> s[k]]

RECURSIVE FindCommandFold(_, _)
\* FindCommand comparing the names without regard to case
FindCommandFold(i, cmdName) ==
    IF i > Len(commands) THEN 0
    ELSE IF commands[i].Name = ToLower(cmdName) THEN i
    ELSE FindCommandFold(i + 1, cmdName)

RECURSIVE FindCommand(_, _)
\* the loop of messageHandler over the table: the index of the first command
\* whose Name equals cmdName, 0 when there is none
FindCommand(i, cmdName) ==
    IF i > Len(commands) THEN 0
    ELSE IF commands[i].Name = cmdName THEN i
    ELSE FindCommand(i + 1, cmdName)

\* messageHandler from the tokenizing on: the command name is looked up and
\* its handler called, or the notice sent
Dispatch(m, env) ==
    LET fields == Fields(m.Content) IN
    IF Len(fields) = 0 THEN NoOutcome
    ELSE LET cmdName == Tail(fields[1])
             found == FindCommand(1, cmdName)
         IN  IF found # 0
             THEN Invoke(commands[found].Handler, m, env)
             ELSE Outcome(<<>>,
                          <<Call("ChannelMessageSend", m.ChannelID, "",
                                 InvalidNotice, <<>>, env.sendOk)>>, <<>>, "")

\* messageHandler without the test of the author
messageHandlerAnswersItself(m, env) ==
    IF ~HasPrefix(m.Content, Prefix) THEN NoOutcome ELSE Dispatch(m, env)

\* messageHandler without the test of the prefix
messageHandlerAnyContent(m, env) ==
    IF m.Author = BotID THEN NoOutcome ELSE Dispatch(m, env)

\* the function messageHandler returns
messageHandler(m, env) ==
    IF m.Author = BotID THEN NoOutcome
    ELSE IF ~HasPrefix(m.Content, Prefix) THEN NoOutcome
    ELSE Dispatch(m, env)

(* ------------------------ interaction handlers ------------------------- *)

\* pingCommandInteraction without the line that appends the response time
pingCommandInteractionLatencyOnly(i, env) ==
    LET wsLatency == Round(env.wsLatency, Millisecond)
        content == << "Pong! WebSocket Ping: ", DurationString(wsLatency) >>
    IN  Outcome(<<"pingCommandInteraction">>,
                <<Call("InteractionRespond", i.ID, "", content, <<wsLatency>>,
                       env.sendOk)>>, <<>>, "")

pingCommandInteraction(i, env) ==
    LET wsLatency == Round(env.wsLatency, Millisecond)
        elapsed == env.elapsed
        content == << "Pong! WebSocket Ping: ", DurationString(wsLatency),
                      " | Response Time: ", DurationString(elapsed) >>
    IN  Outcome(<<"pingCommandInteraction">>,
                <<Call("InteractionRespond", i.ID, "", content,
                       <<wsLatency, elapsed>>, env.sendOk)>>, <<>>, "")

echoCommandInteraction(i, env) ==
    IF Len(i.Options) = 0
    THEN Outcome(<<"echoCommandInteraction">>, <<>>, <<>>, "index out of range")
    ELSE LET messageOption == i.Options[1] IN
         IF messageOption.isNil \/ ~messageOption.hasValue
         THEN Outcome(<<"echoCommandInteraction">>,
                      <<Call("InteractionRespond", i.ID, "", EchoPrompt, <<>>,
                             env.sendOk)>>, <<>>, "")
         ELSE Outcome(<<"echoCommandInteraction">>,
                      <<Call("InteractionRespond", i.ID, "", messageOption.value,
                             <<>>, env.sendOk)>>, <<>>, "")

\* the InteractionCreate handler without the case "echo"
interactionHandlerPingOnly(i, env) ==
    IF i.Type = "ApplicationCommand"
    THEN CASE i.Name = "ping" -> pingCommandInteraction(i, env)
           [] OTHER -> NoOutcome
    ELSE NoOutcome

\* the InteractionCreate handler with a default case that answers
interactionHandlerAnswersUnknown(i, env) ==
    IF i.Type = "ApplicationCommand"
    THEN CASE i.Name = "ping" -> pingCommandInteraction(i, env)
           [] i.Name = "echo" -> echoCommandInteraction(i, env)
           [] OTHER -> Outcome(<<>>, <<Call("InteractionRespond", i.ID, "",
                                            InvalidNotice, <<>>, env.sendOk)>>,
                               <<>>, "")
    ELSE NoOutcome

\* the InteractionCreate handler added in main
interactionHandler(i, env) ==
    IF i.Type = "ApplicationCommand"
    THEN CASE i.Name = "ping" -> pingCommandInteraction(i, env)
           [] i.Name = "echo" -> echoCommandInteraction(i, env)
           [] OTHER -> NoOutcome
    ELSE NoOutcome

(* ------------------------------ inputs --------------------------------- *)

Alphabet == {"!", " "}

\* every text over Alphabet of length at most n
Texts(n) == UNION {[1..k -> Alphabet] : k \in 0..n}

\* the message contents delivered: the commands in their spellings, and every
\* short text over Alphabet
Contents ==
    { <<"!", "p", "i", "n", "g">>,
      <<"!", "P", "I", "N", "G">>,
      <<"!", "e", "c", "h", "o">>,
      <<"!", "e", "c", "h", "o", " ">>,
      <<"!", "e", "c", "h", "o", " ", "h", "i">>,
      <<"!", "e", "c", "h", "o", "\t", "h", "i">>,
      <<"!", "e", "c", "h", "o", " ", "h", "e", "l", "l", "o", " ", "w", "o", "r", "l", "d">>,
      <<"!", "h", "e", "l", "p">>,
      <<"!", "f", "o", "o">>,
      <<"!", " ", "p", "i", "n", "g">>,
      <<" ", "!", "p", "i", "n", "g">>,
      <<"p", "i", "n", "g">> }
    \cup Texts(MaxLen)

Messages ==
    [Author : Users, ChannelID : {Channel}, GuildID : {Guild}, Content : Contents]

\* nanoseconds; a heartbeat latency is negative while an acknowledgement is
\* outstanding
Elapsed == {0, 1234567}
Latencies == {-1500000, 499999}

\* the outcomes of the gateway calls one event's handling makes
DefaultEnv ==
    [guildOk |-> TRUE, channelOk |-> TRUE, sendOk |-> TRUE, editOk |-> TRUE,
     elapsed |-> 0, wsLatency |-> 499999]

\* where a message is routed when every call succeeds: a handler, the
\* invalid-command notice, or nowhere
Route(m) ==
    LET r == messageHandler(m, DefaultEnv)
    IN  IF r.invoked # <<>> THEN r.invoked[1]
        ELSE IF r.calls # <<>> THEN "notice" ELSE "none"

LookupFailures ==
    { [DefaultEnv EXCEPT !.guildOk = g, !.channelOk = c] :
        <<g, c>> \in (BOOLEAN \X BOOLEAN) \ {<<TRUE, TRUE>>} }

SendOutcomes == { [DefaultEnv EXCEPT !.sendOk = b] : b \in BOOLEAN }

PingOutcomes ==
    { [DefaultEnv EXCEPT !.editOk = b, !.elapsed = e, !.wsLatency = l] :
        b \in BOOLEAN, e \in Elapsed, l \in Latencies }

\* the outcomes that matter to the handling of m: a call that is never made
\* has no outcome
MessageEnvs(m) ==
    CASE Route(m) = "none" -> {DefaultEnv}
      [] Route(m) = "notice" -> SendOutcomes
      [] Route(m) = "pingCommand" ->
            LookupFailures \cup {[DefaultEnv EXCEPT !.sendOk = FALSE]} \cup PingOutcomes
      [] OTHER -> LookupFailures \cup SendOutcomes

NilOption == [isNil |-> TRUE, name |-> "", hasValue |-> FALSE, value |-> <<>>]
Option(hasValue, value) ==
    [isNil |-> FALSE, name |-> "message", hasValue |-> hasValue, value |-> value]

OptionLists ==
    { <<>>, <<NilOption>>, <<Option(FALSE, <<>>)>>, <<Option(TRUE, <<"h", "i">>)>>,
      <<Option(TRUE, <<"h", "i">>), Option(TRUE, <<"y", "o">>)>> }

\* an application-command interaction carries the command's name and options
\* (only echo is registered with an option); any other kind carries neither
Interactions ==
    [ID : {"i1"}, Type : {"ApplicationCommand"}, Name : {"echo"},
     Options : OptionLists]
    \cup [ID : {"i1"}, Type : {"ApplicationCommand"},
          Name : {"ping", "help", "foo"}, Options : {<<>>}]
    \cup [ID : {"i1"}, Type : {"MessageComponent"}, Name : {""}, Options : {<<>>}]

InteractionEnvs(i) ==
    IF i.Type # "ApplicationCommand" \/ i.Name \notin {"ping", "echo"}
    THEN {DefaultEnv}
    ELSE IF i.Name = "echo"
    THEN IF i.Options = <<>> THEN {DefaultEnv} ELSE SendOutcomes
    ELSE { [DefaultEnv EXCEPT !.sendOk = b, !.elapsed = e, !.wsLatency = l] :
             b \in BOOLEAN, e \in Elapsed, l \in Latencies }

\* a failure while handling one event: a call the gateway refused, or a panic
Failure(out) ==
    out.panic # "" \/ \E k \in 1..Len(out.calls) : ~out.calls[k].ok

(* ------------------------------ state ---------------------------------- *)

VARIABLES
    mainPc,      \* the statement main is at
    proc,        \* "alive", "exited" (main returned), "panicked", "killed"
    err,         \* the variable err of main, which the Ready handler captures
    openResult,  \* what discord.Open() returned, before it is assigned to err
    conn,        \* the gateway connection: "none", "open", "closed"
    deferred,    \* defer discord.Close() has been executed
    closeCalls,  \* calls of discord.Close
    presence,    \* the UpdateStatusComplex call: "none" (not made), "set", or
                 \* "rejected" (made on a session with no connection)
    openCalls,   \* calls of discord.Open
    mainLog,     \* the error lines main has logged
    readyPc,     \* the statement the running Ready handler is at, or "idle"
    readyCount,  \* Ready events delivered
    regCalls,    \* the ApplicationCommandCreate calls of the last Ready handling
    readySaw,    \* the values of err the last Ready handling read at its checks
    second,      \* a Ready handling that runs while another one is running
    ev,          \* the last message or interaction event and what it did
    nEvents,     \* events delivered
    failed       \* some event's handling has failed

vars == <<mainPc, proc, err, openResult, conn, deferred, closeCalls, presence,
          openCalls, mainLog, readyPc, readyCount, regCalls, readySaw, second,
          ev, nEvents, failed>>

mainVars == <<mainPc, openResult, deferred, closeCalls, presence, openCalls, mainLog>>
readyVars == <<readyPc, readyCount, regCalls, readySaw, second>>

\* no second Ready handling is running
Idle == [pc |-> "idle", calls |-> <<>>, saw |-> <<>>]
eventVars == <<ev, nEvents, failed>>

NoEvent == [kind |-> "none", in |-> <<>>, env |-> DefaultEnv, out |-> NoOutcome]

Init ==
    /\ mainPc = "loadEnv"
    /\ proc = "alive"
    /\ err = "nil"
    /\ openResult = "nil"
    /\ conn = "none"
    /\ deferred = FALSE
    /\ closeCalls = 0
    /\ presence = "none"
    /\ openCalls = 0
    /\ mainLog = <<>>
    /\ readyPc = "idle"
    /\ readyCount = 0
    /\ regCalls = <<>>
    /\ readySaw = <<>>
    /\ second = Idle
    /\ ev = NoEvent
    /\ nEvents = 0
    /\ failed = FALSE

(* ------------------------------- main ---------------------------------- *)

\* a return of main: the deferred Close runs when the defer statement was
\* reached, and the process ends
Return(line) ==
    /\ mainPc' = "done"
    /\ proc' = "exited"
    /\ mainLog' = IF line = "" THEN mainLog ELSE Append(mainLog, line)
    /\ closeCalls' = IF deferred THEN closeCalls + 1 ELSE closeCalls
    /\ conn' = IF deferred /\ conn = "open" THEN "closed" ELSE conn

\* godotenv.Load()
MainLoadEnv ==
    /\ proc = "alive" /\ mainPc = "loadEnv"
    /\ \E ok \in BOOLEAN :
         IF ok
         THEN /\ mainPc' = "getToken"
              /\ UNCHANGED <<proc, mainLog, closeCalls, conn>>
         ELSE Return("Error loading .env file:")
    /\ UNCHANGED <<err, openResult, deferred, presence, openCalls, readyVars,
                   eventVars>>

\* os.Getenv("TOKEN")
MainGetToken ==
    /\ proc = "alive" /\ mainPc = "getToken"
    /\ \E token \in {"", "t"} :
         IF token = ""
         THEN Return("Please set the TOKEN environment variable.")
         ELSE /\ mainPc' = "newSession"
              /\ UNCHANGED <<proc, mainLog, closeCalls, conn>>
    /\ UNCHANGED <<err, openResult, deferred, presence, openCalls, readyVars,
                   eventVars>>

\* discord, err := discordgo.New("Bot " + token)
MainNewSession ==
    /\ proc = "alive" /\ mainPc = "newSession"
    /\ \E ok \in BOOLEAN :
         IF ok
         THEN /\ err' = "nil"
              /\ mainPc' = "setup"
              /\ UNCHANGED <<proc, mainLog, closeCalls, conn>>
         ELSE /\ err' = "newErr"
              /\ Return("Error creating Discord session:")
    /\ UNCHANGED <<openResult, deferred, presence, openCalls, readyVars, eventVars>>

\* the command table, the handlers, defer discord.Close() and the presence
\* update, which is called on the session as it is then
MainSetup ==
    /\ proc = "alive" /\ mainPc = "setup"
    /\ deferred' = TRUE
    /\ presence' = IF conn = "open" THEN "set" ELSE "rejected"
    /\ mainPc' = "open"
    /\ UNCHANGED <<proc, err, openResult, conn, closeCalls, openCalls, mainLog,
                   readyVars, eventVars>>

\* the call discord.Open()
MainOpen ==
    /\ proc = "alive" /\ mainPc = "open"
    /\ \E ok \in BOOLEAN :
         /\ conn' = IF ok THEN "open" ELSE conn
         /\ openResult' = IF ok THEN "nil" ELSE "openErr"
    /\ openCalls' = openCalls + 1
    /\ mainPc' = "assign"
    /\ UNCHANGED <<proc, err, deferred, closeCalls, presence, mainLog, readyVars,
                   eventVars>>

\* err = (the result of discord.Open())
MainAssignErr ==
    /\ proc = "alive" /\ mainPc = "assign"
    /\ err' = openResult
    /\ mainPc' = "check"
    /\ UNCHANGED <<proc, openResult, conn, deferred, closeCalls, presence, openCalls,
                   mainLog, readyVars, eventVars>>

\* the statement after Open without its test of err
MainCheckErrIgnored ==
    /\ proc = "alive" /\ mainPc = "check"
    /\ mainPc' = "wait"
    /\ UNCHANGED <<proc, mainLog, closeCalls, conn>>
    /\ UNCHANGED <<err, openResult, deferred, presence, openCalls, readyVars,
                   eventVars>>

\* ; err != nil { logError; return }, else on to the wait <-sc
MainCheckErr ==
    /\ proc = "alive" /\ mainPc = "check"
    /\ IF err # "nil"
       THEN Return("Error opening connection:")
       ELSE /\ mainPc' = "wait"
            /\ UNCHANGED <<proc, mainLog, closeCalls, conn>>
    /\ UNCHANGED <<err, openResult, deferred, presence, openCalls, readyVars,
                   eventVars>>

\* a termination signal: sc is never registered with signal.Notify, so the
\* receive <-sc never completes and the signal has its default disposition,
\* which ends the process without running the deferred calls
Signal ==
    /\ proc = "alive"
    /\ proc' = "killed"
    /\ UNCHANGED <<mainPc, err, openResult, conn, deferred, closeCalls, presence,
                   openCalls, mainLog, readyVars, eventVars>>

(* --------------------------- Ready handler ----------------------------- *)

\* a Ready event is delivered and its handler logs the startup time
ReadyStart ==
    /\ proc = "alive" /\ conn = "open"
    /\ readyPc = "idle" /\ readyCount < MaxReady
    /\ readyCount' = readyCount + 1
    /\ readyPc' = "createPing"
    /\ regCalls' = <<>>
    /\ readySaw' = <<>>
    /\ UNCHANGED <<mainVars, proc, err, conn, second, eventVars>>

\* _, err = discord.ApplicationCommandCreate(..., name)
Create(name, at, next) ==
    /\ proc = "alive" /\ readyPc = at
    /\ \E ok \in BOOLEAN :
         /\ regCalls' = Append(regCalls, [name |-> name, ok |-> ok])
         /\ err' = IF ok THEN "nil" ELSE name
    /\ readyPc' = next
    /\ UNCHANGED <<mainVars, proc, conn, readyCount, readySaw, second, eventVars>>

\* if err != nil { logError; return }
Check(at, next) ==
    /\ proc = "alive" /\ readyPc = at
    /\ readySaw' = Append(readySaw, err)
    /\ readyPc' = IF err # "nil" THEN "idle" ELSE next
    /\ UNCHANGED <<mainVars, proc, err, conn, readyCount, regCalls, second,
                   eventVars>>

\* the check after the 'ping' call without its return
ReadyCheckPingNoReturn ==
    /\ proc = "alive" /\ readyPc = "checkPing"
    /\ readySaw' = Append(readySaw, err)
    /\ readyPc' = "createEcho"
    /\ UNCHANGED <<mainVars, proc, err, conn, readyCount, regCalls, second,
                   eventVars>>

\* the first registration call naming 'echo'
ReadyCreateEchoFirst == Create("echo", "createPing", "checkPing")

ReadyCreatePing == Create("ping", "createPing", "checkPing")
ReadyCheckPing == Check("checkPing", "createEcho")
ReadyCreateEcho == Create("echo", "createEcho", "checkEcho")
ReadyCheckEcho == Check("checkEcho", "idle")

(* ---------------- two Ready handlings at the same time ------------------ *)

\* a Ready event (a reconnect) is delivered while the handling of the
\* previous one is still running: each event gets its own goroutine, and
\* both run the same closure over main's err
SecondStart ==
    /\ proc = "alive" /\ conn = "open"
    /\ readyPc # "idle" /\ second.pc = "idle" /\ readyCount < MaxReady
    /\ readyCount' = readyCount + 1
    /\ second' = [pc |-> "createPing", calls |-> <<>>, saw |-> <<>>]
    /\ UNCHANGED <<mainVars, proc, err, conn, readyPc, regCalls, readySaw, eventVars>>

\* _, err = discord.ApplicationCommandCreate(..., name) in the second handling
SecondCreate(name, at, next) ==
    /\ proc = "alive" /\ second.pc = at
    /\ \E ok \in BOOLEAN :
         /\ second' = [second EXCEPT !.pc = next,
                                     !.calls = Append(@, [name |-> name, ok |-> ok])]
         /\ err' = IF ok THEN "nil" ELSE name
    /\ UNCHANGED <<mainVars, proc, conn, readyPc, readyCount, regCalls, readySaw,
                   eventVars>>

\* if err != nil { logError; return } in the second handling
SecondCheck(at, next) ==
    /\ proc = "alive" /\ second.pc = at
    /\ second' = [second EXCEPT !.pc = IF err # "nil" THEN "idle" ELSE next,
                                !.saw = Append(@, err)]
    /\ UNCHANGED <<mainVars, proc, err, conn, readyPc, readyCount, regCalls,
                   readySaw, eventVars>>

SecondCreatePing == SecondCreate("ping", "createPing", "checkPing")
SecondCheckPing == SecondCheck("checkPing", "createEcho")
SecondCreateEcho == SecondCreate("echo", "createEcho", "checkEcho")
SecondCheckEcho == SecondCheck("checkEcho", "idle")

(* ------------------------------ events --------------------------------- *)

\* the handling of one event: a panic in a handler goroutine is not
\* recovered and ends the process
Handle(kind, in, env, out) ==
    /\ ev' = [kind |-> kind, in |-> in, env |-> env, out |-> out]
    /\ nEvents' = nEvents + 1
    /\ failed' = (failed \/ Failure(out))
    /\ proc' = IF out.panic # "" THEN "panicked" ELSE proc

\* a MessageCreate event is delivered to the function messageHandler returned
MessageCreate ==
    /\ proc = "alive" /\ conn = "open" /\ nEvents < MaxEvents
    /\ \E m \in Messages : \E env \in MessageEnvs(m) :
         Handle("message", m, env, messageHandler(m, env))
    /\ UNCHANGED <<mainVars, err, conn, readyVars>>

\* an InteractionCreate event is delivered to the handler added in main
InteractionCreate ==
    /\ proc = "alive" /\ conn = "open" /\ nEvents < MaxEvents
    /\ \E i \in Interactions : \E env \in InteractionEnvs(i) :
         Handle("interaction", i, env, interactionHandler(i, env))
    /\ UNCHANGED <<mainVars, err, conn, readyVars>>

Next ==
    \/ MainLoadEnv \/ MainGetToken \/ MainNewSession \/ MainSetup
    \/ MainOpen \/ MainAssignErr \/ MainCheckErr \/ Signal
    \/ ReadyStart \/ ReadyCreatePing \/ ReadyCheckPing
    \/ ReadyCreateEcho \/ ReadyCheckEcho
    \/ MessageCreate \/ InteractionCreate

Spec == Init /\ [][Next]_vars

\* main has opened the connection, found err nil and is blocked in <-sc; no
\* Ready event has been handled yet
InitOverlap ==
    /\ mainPc = "wait"
    /\ proc = "alive"
    /\ err = "nil"
    /\ openResult = "nil"
    /\ conn = "open"
    /\ deferred = TRUE
    /\ closeCalls = 0
    /\ presence = "rejected"
    /\ openCalls = 1
    /\ mainLog = <<>>
    /\ readyPc = "idle"
    /\ readyCount = 0
    /\ regCalls = <<>>
    /\ readySaw = <<>>
    /\ second = Idle
    /\ ev = NoEvent
    /\ nEvents = 0
    /\ failed = FALSE

\* the Ready handlings alone, one after another or two at the same time
NextOverlap ==
    \/ ReadyStart \/ ReadyCreatePing \/ ReadyCheckPing
    \/ ReadyCreateEcho \/ ReadyCheckEcho
    \/ SecondStart \/ SecondCreatePing \/ SecondCheckPing
    \/ SecondCreateEcho \/ SecondCheckEcho

SpecOverlap == InitOverlap /\ [][NextOverlap]_vars

(* ------------------------------ claims --------------------------------- *)

EchoToken == <<"!", "e", "c", "h", "o">>

IsMessage == ev.kind = "message"
IsInteraction == ev.kind = "interaction"
StartsWithPrefix(c) == c # <<>> /\ c[1] = "!"

\* the first white-space-delimited token of a text that starts with a
\* character that is not white space
FirstToken(c) ==
    LET n == CHOOSE k \in 1..Len(c) :
                 /\ \A j \in 1..k : ~IsSpace(c[j])
                 /\ k = Len(c) \/ IsSpace(c[k + 1])
    IN  SubSeq(c, 1, n)

\* what follows the first token and the character that delimits it
AfterToken(c) == SubSeq(c, Len(FirstToken(c)) + 2, Len(c))

Send(m, content) ==
    Call("ChannelMessageSend", m.ChannelID, "", content, <<>>, ev.env.sendOk)

Respond(i, content) ==
    Call("InteractionRespond", i.ID, "", content, <<>>, ev.env.sendOk)

\* C1: a message dispatched to echo (first token exactly "!echo") makes the
\* echo handler send exactly one message to the originating channel: what
\* follows the command token when that is not empty, and the fixed prompt
\* when nothing follows.  Stated where both audit lookups succeed.
C1_EchoSendsRemainderOrPrompt ==
    ( /\ IsMessage
      /\ ev.in.Author # BotID
      /\ StartsWithPrefix(ev.in.Content)
      /\ FirstToken(ev.in.Content) = EchoToken
      /\ ev.env.guildOk /\ ev.env.channelOk )
    => LET rest == AfterToken(ev.in.Content)
       IN  ev.out.calls =
             << Send(ev.in, IF rest # <<>> THEN rest ELSE EchoPrompt) >>

C3_LookupFailureDoesNotBlock ==
    ( /\ IsMessage
      /\ ev.out.invoked # <<>>
      /\ ~ev.env.guildOk \/ ~ev.env.channelOk )
    => ( /\ ev.out.panic = ""
         /\ Len(ev.out.audit) = 1
         /\ ev.out.calls # <<>>
         /\ ev.out.calls[1].op = "ChannelMessageSend" )

\* C4: an application-command interaction named "echo" gets exactly one
\* response, whatever its option list: the value of the 'message' option
\* when it is present, the fixed prompt when the option or its value is not
C4_EchoInteractionRespondsOnce ==
    ( /\ IsInteraction
      /\ ev.in.Type = "ApplicationCommand"
      /\ ev.in.Name = "echo" )
    => LET opts == ev.in.Options
           present == { k \in 1..Len(opts) :
                          ~opts[k].isNil /\ opts[k].name = "message" /\ opts[k].hasValue }
           first == CHOOSE k \in present : \A j \in present : k <= j
       IN  ev.out.calls =
             << Respond(ev.in, IF present # {} THEN opts[first].value ELSE EchoPrompt) >>

\* C5: a termination signal delivered while main is Running (blocked in the
\* wait) gets the gateway connection closed
C5_SignalClosesConnection ==
    (mainPc = "wait" /\ proc = "killed") => (closeCalls > 0 /\ conn = "closed")

\* C6: a failure while handling one event ends only that handling: the
\* session stays live for the other events
C6_FailureIsLocal ==
    failed => proc # "panicked"

\* C7: a message whose author is the bot itself invokes no handler and makes
\* no outbound call, whatever its content
C7_OwnMessagesIgnored ==
    (IsMessage /\ ev.in.Author = BotID) => ev.out = NoOutcome

C7_OwnPingSeen ==
    /\ IsMessage
    /\ ev.in.Author = BotID
    /\ ev.in.Content = <<"!", "p", "i", "n", "g">>
    /\ ev.out.calls = <<>>

\* C8: a message whose content does not start with "!" (empty content and
\* white space before the "!" included) invokes no handler and makes no
\* outbound call
C8_UnprefixedIgnored ==
    (IsMessage /\ ~StartsWithPrefix(ev.in.Content)) => ev.out = NoOutcome

C8_LeadingSpaceSeen ==
    /\ IsMessage
    /\ ev.in.Author # BotID
    /\ ev.in.Content = <<" ", "!", "p", "i", "n", "g">>
    /\ ev.out.invoked = <<>>

\* C9: a message from another sender that starts with "!" either names a
\* registered command exactly (case-sensitively), and then that command's
\* handler alone is invoked once and no notice is sent, or it does not, and
\* then no handler is invoked and exactly the invalid-command notice is sent
C9_HandlerOrNotice ==
    ( /\ IsMessage
      /\ ev.in.Author # BotID
      /\ StartsWithPrefix(ev.in.Content) )
    => LET name == Tail(FirstToken(ev.in.Content))
           hits == { k \in 1..Len(commands) : commands[k].Name = name }
       IN  IF hits # {}
           THEN /\ \E k \in hits : ev.out.invoked = << commands[k].Handler >>
                /\ \A k \in 1..Len(ev.out.calls) :
                       ev.out.calls[k].content # InvalidNotice
           ELSE /\ ev.out.invoked = <<>>
                /\ ev.out.calls = << Send(ev.in, InvalidNotice) >>

C9_UpperCaseSeen ==
    /\ IsMessage
    /\ ev.in.Author # BotID
    /\ ev.in.Content = <<"!", "P", "I", "N", "G">>
    /\ Len(ev.out.calls) = 1

C11_UnhandledInteractionDropped ==
    ( /\ IsInteraction
      /\ ev.in.Type # "ApplicationCommand" \/ ev.in.Name \notin {"ping", "echo"} )
    => ev.out = NoOutcome

C11_HelpInteractionSeen ==
    /\ IsInteraction
    /\ ev.in.Type = "ApplicationCommand"
    /\ ev.in.Name = "help"
    /\ ev.out.calls = <<>>

\* the line of the help message for the k-th command of the table
HelpLine(k) ==
    <<"- !">> \o commands[k].Name \o <<": ", commands[k].Description, "\n">>

\* C12: the help command sends exactly one message to the originating
\* channel: the header "Available commands:" and then one line
\* "- !<name>: <description>" for each registered command, once each, in the
\* order ping, echo, help
C12_HelpListsEveryCommand ==
    (IsMessage /\ ev.out.invoked = <<"helpCommand">>)
    => /\ <<commands[1].Name, commands[2].Name, commands[3].Name>>
            = <<PingName, EchoName, HelpName>>
       /\ ev.out.calls =
            << Send(ev.in, <<"Available commands:\n">>
                           \o HelpLine(1) \o HelpLine(2) \o HelpLine(3)) >>

\* the outcome of a Ready handling that runs alone: after a failed 'ping'
\* call it returns with that one call made, after a successful one it goes
\* on to the 'echo' call
AsAlone(pc, calls) ==
    (pc = "idle" /\ calls # <<>>) => Len(calls) = IF calls[1].ok THEN 2 ELSE 1

\* C13: handler invocations share no mutable state, so under every
\* interleaving each invocation has the outcome it has when it runs alone
C13_HandlingsDoNotInterfere ==
    AsAlone(readyPc, regCalls) /\ AsAlone(second.pc, second.calls)

\* C14: in the text-command ping handler the placeholder "Pong!" is sent
\* first; the edit is made at most once, only after that send succeeded, on
\* the channel and message the send returned; after a failed send the
\* handler returns with no edit and without ending the session
C14_EditOnlyAfterSend ==
    (IsMessage /\ ev.out.invoked = <<"pingCommand">>)
    => LET calls == ev.out.calls IN
       /\ Len(calls) <= 2
       /\ Len(calls) >= 1 => calls[1] = Send(ev.in, Pong)
       /\ Len(calls) = 2 =>
            /\ calls[1].ok
            /\ calls[2].op = "ChannelMessageEdit"
            /\ calls[2].target = ev.in.ChannelID
            /\ calls[2].ref = MessageID
       /\ (Len(calls) >= 1 /\ ~calls[1].ok) =>
            (Len(calls) = 1 /\ ev.out.panic = "")

C14_FailedSendSeen ==
    /\ IsMessage
    /\ ev.out.invoked = <<"pingCommand">>
    /\ Len(ev.out.calls) = 1
    /\ ~ev.out.calls[1].ok
    /\ proc = "alive"

\* C15: slash-command registration is triggered by the Ready event and not
\* by the return of the open call: no registration call is made before a
\* Ready event is delivered, and the handling of each Ready event attempts
\* 'ping' first and 'echo' after it
C15_RegistrationFollowsReady ==
    /\ readyCount = 0 => regCalls = <<>>
    /\ \A k \in 1..Len(regCalls) : k <= 2 /\ regCalls[k].name = <<"ping", "echo">>[k]
    /\ readyPc = "createPing" => regCalls = <<>>
    /\ (readyCount > 0 /\ readyPc = "idle") => regCalls # <<>>

C15_SecondReadySeen ==
    /\ readyCount = 2
    /\ readyPc = "idle"
    /\ Len(regCalls) = 2
    /\ regCalls[2].name = "echo"

\* C16: the gateway connection is opened at most once; when that attempt
\* fails main logs the error and returns without reaching the wait, and the
\* deferred Close runs; a missing credential or a session-construction error
\* ends the process before any Open or Close call
C16_SingleOpenAttempt ==
    /\ openCalls <= 1
    /\ openResult = "openErr" => mainPc \in {"assign", "check", "done"}
    /\ (openResult = "openErr" /\ mainPc = "done") =>
         /\ mainLog = <<"Error opening connection:">>
         /\ closeCalls = 1
         /\ proc = "exited"
    /\ ( /\ mainLog # <<>>
         /\ mainLog[1] \in {"Please set the TOKEN environment variable.",
                            "Error creating Discord session:"} ) =>
         /\ openCalls = 0
         /\ closeCalls = 0
         /\ proc = "exited"

C16_FailedOpenSeen ==
    /\ openResult = "openErr"
    /\ mainPc = "done"
    /\ closeCalls = 1

\* C17: in the final content of the text-command ping reply the value
\* printed after "Response Time:" and the value printed after
\* "WebSocket Ping:" are each a whole number of milliseconds
C17_PingDurationsWholeMilliseconds ==
    (IsMessage /\ ev.out.invoked = <<"pingCommand">> /\ Len(ev.out.calls) = 2)
    => LET edit == ev.out.calls[2] IN
       /\ edit.content[1] = "Pong! Response Time: "
       /\ edit.content[2] = DurationString(edit.args[1])
       /\ edit.content[3] = " | WebSocket Ping: "
       /\ edit.content[4] = DurationString(edit.args[2])
       /\ edit.args[1] % Millisecond = 0
       /\ edit.args[2] % Millisecond = 0

Logged(line) == \E k \in 1..Len(mainLog) : mainLog[k] = line

\* C18: main logs "Error opening connection" and terminates exactly when
\* Open itself returned an error, under every interleaving with the Ready
\* handler: a failed registration never makes main terminate, and main's
\* assignment never hides a registration error from the Ready handler
C18_OpenErrorDependsOnOpenOnly ==
    /\ Logged("Error opening connection:") => openResult = "openErr"
    /\ mainPc = "wait" => openResult = "nil"
    /\ \A k \in 1..Len(readySaw) : (readySaw[k] = "nil") <=> regCalls[k].ok

\* C19: no call that needs a live gateway connection (presence update, send,
\* edit, interaction response, slash-command registration) is made before
\* the open call has succeeded, and after a successful start the presence
\* is set
C19_LiveCallsAfterOpen ==
    /\ presence # "rejected"
    /\ mainPc = "wait" => presence = "set"
    /\ (ev.out.calls # <<>> \/ regCalls # <<>>) => (openCalls = 1 /\ openResult = "nil")

\* the slash-command names the last Ready handling registered remotely
Registered == { regCalls[k].name : k \in { j \in 1..Len(regCalls) : regCalls[j].ok } }

\* the interaction carries what the registered definition of its command
\* requires: for echo, the string option 'message' with a value
MatchesDefinition(i) ==
    i.Name = "echo" =>
        /\ i.Options # <<>>
        /\ ~i.Options[1].isNil
        /\ i.Options[1].name = "message"
        /\ i.Options[1].hasValue

====
